---- MODULE Spec2Model ----
(***************************************************************************)
(* Model of src/src/App.tsx: the provider dashboard component.  The state  *)
(* is the component's React state plus the browser's localStorage entry    *)
(* 'providerAuth'; the actions are the two effects, the form's handlers,   *)
(* handleLogin, handleLogout, fetchData and addTripNamesToItems, each cut  *)
(* at its network awaits.                                                  *)
(***************************************************************************)
EXTENDS Integers, Sequences, FiniteSets, TLC

\* ------------------------------------------------------------------------
\* JavaScript values.  Scalars are strings; the two non-values are the
\* strings below (no user, trip or site of the model is named like them).
Undefined == "undefined"
Null == "null"

\* The literals of the source.
DefaultSiteUrl == "https://world.hyrosy.com"
MsgRequired == "All fields are required."
MsgInvalid == "Invalid username or application password."
MsgTransport == "Failed to fetch"
MsgBadJson == "Unexpected token in JSON"
UnknownTrip == "Unknown Trip"

\* ------------------------------------------------------------------------
\* Bounds of the model.
MaxCycles == 2
MaxItems == 1
MaxEnrichItems == 2

\* Inputs the environment draws from.
SiteUrls == {"", DefaultSiteUrl}
Usernames == {"", "alice"}
Passwords == {"", "pw"}
ServerIdentities == {<<"7", "alice">>, <<"8", "Alice A.">>, <<Undefined, "alice">>}
TripTitles == {"Safari", ""}
CartTitles == {"Safari", ""}

\* ------------------------------------------------------------------------
\* JSON text of an object: the set of its <<key, value>> pairs.  A text is
\* a record: kind "absent" is getItem's null, "garbage" is text JSON.parse
\* rejects, "json" is the text of the object `body`.
Absent == [kind |-> "absent", body |-> {}]
Garbage == [kind |-> "garbage", body |-> {}]

\* JSON.stringify drops the keys whose value is undefined.
JSONstringify(obj) ==
    [kind |-> "json", body |-> {p \in obj : p[2] # Undefined}]

\* Reading a property of a parsed object: undefined when the key is not there.
Prop(obj, k) ==
    IF \E p \in obj : p[1] = k
    THEN (CHOOSE p \in obj : p[1] = k)[2]
    ELSE Undefined

\* JSON.parse throws on text that is not JSON.
ParseThrows(text) == text.kind = "garbage"

\* btoa(`${username}:${appPassword}`)
Token(u, p) == "b64(" \o u \o ":" \o p \o ")"

\* ------------------------------------------------------------------------
\* Items of a collection.  order_trips is meta.order_trips: wrap "none" is
\* no such key, "array" is [ {cart_i: {title: carts[i]}} ], "bare" is the
\* map {cart_i: {title: carts[i]}} itself; a title "" is a missing or empty
\* title.  trip_id is meta.wp_travel_engine_enquiry_trip_id as a sequence
\* (<<>> when the key is missing or the array empty); 0 is a falsy id.
OrderTripsShapes ==
    {[wrap |-> "none", carts |-> <<>>]}
    \cup {[wrap |-> w, carts |-> c] :
            w \in {"array", "bare"}, c \in {<<>>} \cup {<<t>> : t \in CartTitles}}
TripIdShapes == {<<>>, <<0>>, <<42>>}
ItemShapes == [order_trips : OrderTripsShapes, trip_id : TripIdShapes]

\* The items the dashboard's collections are drawn from.
AppItemShapes ==
    {[order_trips |-> [wrap |-> "array", carts |-> <<"Safari">>], trip_id |-> <<>>],
     [order_trips |-> [wrap |-> "none", carts |-> <<>>], trip_id |-> <<42>>]}

SeqsUpTo(S, n) == UNION {[1..k -> S] : k \in 0..n}

\* A collection body: items get their position as id.
WithIds(shapes) ==
    [i \in 1..Len(shapes) |->
        [id |-> i, order_trips |-> shapes[i].order_trips, trip_id |-> shapes[i].trip_id]]

\* ------------------------------------------------------------------------
\* addTripNamesToItems (lines 143-172).

\* What `x || fallback` and `if (x)` take for false.
Falsy(v) == v \in {"", Undefined, Null}

\* item.meta?.order_trips?.[0] is an object (truthy) only when order_trips is
\* an array whose first element is the cart map; on a bare map, [0] is a key
\* the map does not have.
OrderTripsTruthy(item) == item.order_trips.wrap = "array"

\* FirstCartTitle reading orderTrips.title, without the cart key.
FirstCartTitleOfMap(item) == Undefined

\* orderTrips[Object.keys(orderTrips)[0]]?.title
FirstCartTitle(item) ==
    IF Len(item.order_trips.carts) = 0 THEN Undefined
    ELSE item.order_trips.carts[1]

\* item.meta?.wp_travel_engine_enquiry_trip_id?.[0]; 0 also stands for undefined.
EnquiryTripId(item) ==
    IF Len(item.trip_id) = 0 THEN 0 ELSE item.trip_id[1]

\* A callback's promise: fetched says that it issued a request (for tripId);
\* nth is its rank among the requests that are back (0: none, or not back).
Settled(name) ==
    [st |-> "done", trip_name |-> name, tripId |-> 0, fetched |-> FALSE, nth |-> 0]
Awaiting(id) ==
    [st |-> "pending", trip_name |-> Undefined, tripId |-> id, fetched |-> TRUE, nth |-> 0]

\* The map callback up to its first await (lines 148-162): the item's
\* trip name when no request is needed, else the request it issues.
ItemStart(item, isEnquiry) ==
    LET tripId == IF isEnquiry THEN EnquiryTripId(item) ELSE 0
    IN  IF ~isEnquiry /\ OrderTripsTruthy(item)
        THEN Settled(IF Falsy(FirstCartTitle(item)) THEN UnknownTrip
                     ELSE FirstCartTitle(item))
        ELSE IF tripId # 0 THEN Awaiting(tripId)
        ELSE Settled(UnknownTrip)

\* The outcomes of GET trip/<id>?_fields=title: "neterr" fetch rejects,
\* "non2xx", "badjson" json() rejects, "notitle" a body without title (reading
\* .rendered throws), "ok" a body whose title.rendered is `rendered`
\* (Undefined: a title object without rendered).
LookupOutcomes ==
    {[kind |-> k, rendered |-> Undefined] : k \in {"neterr", "non2xx", "badjson", "notitle"}}
    \cup {[kind |-> "ok", rendered |-> r] : r \in TripTitles \cup {Undefined}}

\* The lookup outcomes the dashboard's requests are answered with.
AppLookupOutcomes ==
    {o \in LookupOutcomes : o.kind # "ok" \/ o.rendered = "Safari"}

\* The map callback after the await (lines 163-169).
LookupTripName(o) ==
    IF o.kind = "ok" THEN o.rendered ELSE UnknownTrip

\* items.map(async ...) (line 147; line 144 for no items).
StartSlots(items, isEnquiry) ==
    [i \in 1..Len(items) |-> ItemStart(items[i], isEnquiry)]

\* The requests that are back.
Back(slots) == {j \in 1..Len(slots) : slots[j].fetched /\ slots[j].st = "done"}

SlotRespond(slots, i, o) ==
    [slots EXCEPT ![i] = [@ EXCEPT !.st = "done", !.trip_name = LookupTripName(o),
                                   !.nth = Cardinality(Back(slots)) + 1]]

\* Promise.all has resolved.
AllSettled(slots) == \A i \in 1..Len(slots) : slots[i].st = "done"

\* Enhanced collecting each result as its callback finishes: the callbacks
\* that issued no request first, then the others as their answers came back.
EnhancedInCompletionOrder(items, slots) ==
    LET Before(m, j) == \/ slots[m].nth < slots[j].nth
                        \/ slots[m].nth = slots[j].nth /\ m < j
        Rank(j) == 1 + Cardinality({m \in 1..Len(items) : Before(m, j)})
        At(k) == CHOOSE j \in 1..Len(items) : Rank(j) = k
    IN  [k \in 1..Len(items) |->
            [id |-> items[At(k)].id, order_trips |-> items[At(k)].order_trips,
             trip_id |-> items[At(k)].trip_id, trip_name |-> slots[At(k)].trip_name]]

\* { ...item, trip_name } per position (Promise.all keeps the positions).
Enhanced(items, slots) ==
    [i \in 1..Len(items) |->
        [id |-> items[i].id, order_trips |-> items[i].order_trips,
         trip_id |-> items[i].trip_id, trip_name |-> slots[i].trip_name]]

VARIABLES
    app,              \* "unmounted", "mounted" or "crashed"
    localStorage,     \* the text stored under 'providerAuth'
    isLoggedIn, isLoading, loginError,
    siteUrl, username, appPassword,
    bookings, enquiries, \* each [of |-> the fetchData call that set it (0: none), items]
    currentUsername, userId,
    effectPending,    \* the isLoggedIn effect is queued for the committed render
    loginReq,         \* the handleLogin call awaiting users/me
    cycles,           \* the fetchData calls, in order of their start
    enr,              \* an addTripNamesToItems call on its own
    alerts,           \* number of alert() dialogs raised
    logoutCalls \* handleLogout calls since the last login

reactState == <<isLoggedIn, isLoading, loginError, siteUrl, username, appPassword,
                bookings, enquiries, currentUsername, userId>>
ghost == <<alerts, logoutCalls>>
vars == <<app, localStorage, reactState, effectPending, loginReq, cycles, enr, ghost>>

\* ------------------------------------------------------------------------
\* useState([]) (lines 23-24) and setBookings([]) (lines 101-102).
NoItems == [of |-> 0, items |-> <<>>]

NoLogin == [pc |-> "idle", siteUrl |-> "", token |-> ""]
NoEnr == [pc |-> "idle", isEnquiry |-> FALSE, items |-> <<>>, slots |-> <<>>, out |-> <<>>]

\* A session as handleLogin stores it (lines 74-80).
AuthPayload(name, id, site, token) ==
    {<<"username", name>>, <<"userId", id>>, <<"siteUrl", site>>, <<"token", token>>}

\* What a browser may hold under 'providerAuth' when the page loads: nothing,
\* a session a previous visit stored, or text that is not JSON.
InitialStores ==
    {Absent, Garbage,
     JSONstringify(AuthPayload("alice", "7", DefaultSiteUrl, Token("alice", "pw")))}

Init ==
    /\ app = "unmounted"
    /\ localStorage \in InitialStores
    /\ isLoggedIn = FALSE
    /\ isLoading = TRUE
    /\ loginError = ""
    /\ siteUrl = DefaultSiteUrl
    /\ username = ""
    /\ appPassword = ""
    /\ bookings = NoItems
    /\ enquiries = NoItems
    /\ currentUsername = ""
    /\ userId = Null
    /\ effectPending = FALSE
    /\ loginReq = NoLogin
    /\ cycles = <<>>
    /\ enr = NoEnr
    /\ alerts = 0
    /\ logoutCalls = 0

\* ------------------------------------------------------------------------
\* The first effect (lines 29-39), run once when the component mounts.  An
\* exception in it leaves the component unmounted by React: "crashed".
Mount ==
    /\ app = "unmounted"
    /\ IF localStorage.kind = "absent"
       THEN /\ app' = "mounted"
            /\ isLoading' = FALSE
            /\ UNCHANGED <<siteUrl, currentUsername, userId, isLoggedIn, effectPending>>
       ELSE IF ParseThrows(localStorage)
       THEN /\ app' = "crashed"
            /\ UNCHANGED <<isLoading, siteUrl, currentUsername, userId, isLoggedIn,
                           effectPending>>
       ELSE LET auth == localStorage.body
            IN  /\ app' = "mounted"
                /\ siteUrl' = Prop(auth, "siteUrl")
                /\ currentUsername' = Prop(auth, "username")
                /\ userId' = Prop(auth, "userId")
                /\ isLoggedIn' = TRUE
                /\ isLoading' = FALSE
                /\ effectPending' = TRUE
    /\ UNCHANGED <<localStorage, loginError, username, appPassword, bookings, enquiries,
                   loginReq, cycles, enr, alerts, logoutCalls>>

\* The login form is rendered (lines 175-177, 193): its inputs and its submit
\* button are there only when nobody is logged in and nothing is loading.
\* React runs a committed render's effects before the next event's handler.
FormShown == app = "mounted" /\ ~isLoggedIn /\ ~isLoading /\ ~effectPending

\* MissingInput without the check of siteUrl.
MissingCredentials(s, u, p) == u = "" \/ p = ""

\* handleLogin up to its await (lines 49-65), on the form as the user left
\* it: s, u and p are what the inputs' onChange handlers (lines 205, 209,
\* 213) have put in siteUrl, username and appPassword since the last render.
MissingInput(s, u, p) == s = "" \/ u = "" \/ p = ""

SubmitLogin(s, u, p) ==
    /\ FormShown
    /\ Len(cycles) < MaxCycles
    /\ siteUrl' = s
    /\ username' = u
    /\ appPassword' = p
    /\ IF MissingInput(s, u, p)
       THEN /\ loginError' = MsgRequired
            /\ isLoading' = FALSE
            /\ loginReq' = loginReq
       ELSE /\ loginError' = ""
            /\ isLoading' = TRUE
            /\ loginReq' = [pc |-> "awaiting", siteUrl |-> s, token |-> Token(u, p)]
    /\ UNCHANGED <<app, localStorage, isLoggedIn, bookings, enquiries, currentUsername,
                   userId, effectPending, cycles, enr, alerts, logoutCalls>>

\* The outcomes of GET users/me: "neterr" fetch rejects, "non2xx", "badjson"
\* json() rejects, "ok" a body with these id and name.
LoginOutcomes ==
    {[kind |-> k, id |-> Undefined, name |-> Undefined] : k \in {"neterr", "non2xx"}}
    \cup {[kind |-> "ok", id |-> b[1], name |-> b[2]] : b \in ServerIdentities}

\* error.message in the catch of handleLogin (line 88).
LoginErrorMessage(o) ==
    IF o.kind = "non2xx" THEN MsgInvalid
    ELSE IF o.kind = "neterr" THEN MsgTransport
    ELSE MsgBadJson

\* LoginPayload with line 75 reading `username: username`.
LoginPayloadOfForm(o, req) == AuthPayload(username, o.id, req.siteUrl, req.token)

\* authPayload of lines 74-79.
LoginPayload(o, req) == AuthPayload(o.name, o.id, req.siteUrl, req.token)

\* LoginSucceeds without the check of line 67.
LoginSucceedsUnchecked(o) == o.kind # "neterr"

\* Lines 67-71: the response is ok and its body parsed.
LoginSucceeds(o) == o.kind = "ok"

\* handleLogin after its await (lines 67-91).
LoginResponse(o) ==
    /\ app = "mounted"
    /\ loginReq.pc = "awaiting"
    /\ loginReq' = NoLogin
    /\ isLoading' = FALSE
    /\ IF LoginSucceeds(o)
       THEN /\ localStorage' = JSONstringify(LoginPayload(o, loginReq))
            /\ userId' = o.id
            /\ currentUsername' = o.name
            /\ isLoggedIn' = TRUE
            /\ effectPending' = ~isLoggedIn
            /\ logoutCalls' = 0
            /\ UNCHANGED loginError
       ELSE /\ loginError' = LoginErrorMessage(o)
            /\ UNCHANGED <<localStorage, userId, currentUsername, isLoggedIn,
                           effectPending, logoutCalls>>
    /\ UNCHANGED <<app, siteUrl, username, appPassword, bookings, enquiries, cycles,
                   enr, alerts>>

\* ------------------------------------------------------------------------
\* handleLogout (lines 94-103), as a function of what it writes.
Session ==
    [localStorage |-> localStorage, isLoggedIn |-> isLoggedIn, username |-> username,
     appPassword |-> appPassword, currentUsername |-> currentUsername,
     userId |-> userId, bookings |-> bookings, enquiries |-> enquiries]

\* handleLogout without lines 101-102.
handleLogoutKeepsResults(s) ==
    [s EXCEPT !.localStorage = Absent,
              !.isLoggedIn = FALSE,
              !.username = "",
              !.appPassword = "",
              !.currentUsername = "",
              !.userId = Null]

handleLogout(s) ==
    [s EXCEPT !.localStorage = Absent,
              !.isLoggedIn = FALSE,
              !.username = "",
              !.appPassword = "",
              !.currentUsername = "",
              !.userId = Null,
              !.bookings = NoItems,
              !.enquiries = NoItems]

Assign(s) ==
    /\ localStorage' = s.localStorage
    /\ isLoggedIn' = s.isLoggedIn
    /\ username' = s.username
    /\ appPassword' = s.appPassword
    /\ currentUsername' = s.currentUsername
    /\ userId' = s.userId
    /\ bookings' = s.bookings
    /\ enquiries' = s.enquiries

\* The Logout button (lines 183-190) is rendered while logged in.
ClickLogout ==
    /\ app = "mounted"
    /\ isLoggedIn
    /\ ~effectPending
    /\ Assign(handleLogout(Session))
    /\ logoutCalls' = logoutCalls + 1
    /\ UNCHANGED <<app, isLoading, loginError, siteUrl, effectPending, loginReq,
                   cycles, enr, alerts>>

\* ------------------------------------------------------------------------
\* fetchData (lines 105-141).  A call is a record: pc "fetching" (awaiting
\* Promise.all of line 117), "enriching" (awaiting addTripNamesToItems, line
\* 128 in phase "bookings", line 129 in phase "enquiries"), "done" (returned
\* through line 132) or "failed" (returned through the catch).  bRes and eRes
\* are the two fetches: "pending", "ok", "non2xx", "neterr" (rejected) or
\* "badjson" (a 2xx whose json() rejects).
NewCycle(auth) ==
    [pc |-> "fetching", auth |-> auth, bRes |-> "pending", eRes |-> "pending",
     bookingsData |-> <<>>, enquiriesData |-> <<>>, phase |-> "none",
     slots |-> <<>>, enhancedBookings |-> <<>>]

\* A returned call keeps how it ended and the session it ran with; one that
\* returned through line 132 also keeps the two responses it went on from.
Ended(cy, how) ==
    IF how = "done"
    THEN [NewCycle(cy.auth) EXCEPT !.pc = how, !.bRes = cy.bRes, !.eRes = cy.eRes]
    ELSE [NewCycle(cy.auth) EXCEPT !.pc = how]

\* Promise.all (line 117) is still pending: no fetch rejected, one not back.
PromiseAllPending(cy) ==
    /\ "neterr" \notin {cy.bRes, cy.eRes}
    /\ "pending" \in {cy.bRes, cy.eRes}

\* FetchThrows with line 122 reading `!bookingsRes.ok && !enquiriesRes.ok`.
FetchThrowsWhenBothFail(cy) ==
    \/ "neterr" \in {cy.bRes, cy.eRes}
    \/ cy.bRes \in {"non2xx", "badjson"} /\ cy.eRes \in {"non2xx", "badjson"}

\* Lines 117-125 throw: a fetch rejected, a status is not ok (line 122), or a
\* body is not JSON (lines 124-125).
FetchThrows(cy) ==
    \/ "neterr" \in {cy.bRes, cy.eRes}
    \/ cy.bRes \in {"non2xx", "badjson"}
    \/ cy.eRes \in {"non2xx", "badjson"}

\* Line 129 on: the enquiries' enrichment, then the end of the try block.
\* pc "publish" stands for `line 131 is reached`.
EnrichEnquiries(cy) ==
    LET s == StartSlots(cy.enquiriesData, TRUE)
    IN  [cy EXCEPT !.pc = IF AllSettled(s) THEN "publish" ELSE "enriching",
                   !.phase = "enquiries",
                   !.slots = s]

\* Line 128: the bookings' enrichment.
EnrichBookings(cy) ==
    LET s == StartSlots(cy.bookingsData, FALSE)
    IN  IF AllSettled(s)
        THEN EnrichEnquiries([cy EXCEPT !.enhancedBookings = Enhanced(cy.bookingsData, s)])
        ELSE [cy EXCEPT !.pc = "enriching", !.phase = "bookings", !.slots = s]

\* The call's continuation once a fetch is back.  pc "throw" stands for
\* `the catch of line 134 is entered`.
AfterFetch(cy) ==
    IF PromiseAllPending(cy) THEN cy
    ELSE IF FetchThrows(cy) THEN [cy EXCEPT !.pc = "throw"]
    ELSE EnrichBookings(cy)

\* AfterLookup without the try/catch of lines 161-167: a lookup that fell
\* back rejects its callback, Promise.all and the await of fetchData.
AfterLookupRejects(cy) ==
    IF \E i \in 1..Len(cy.slots) :
            cy.slots[i].fetched /\ cy.slots[i].trip_name = UnknownTrip
    THEN [cy EXCEPT !.pc = "throw"]
    ELSE IF ~AllSettled(cy.slots) THEN cy
    ELSE IF cy.phase = "bookings"
    THEN EnrichEnquiries([cy EXCEPT !.enhancedBookings = Enhanced(cy.bookingsData, cy.slots)])
    ELSE [cy EXCEPT !.pc = "publish"]

\* The call's continuation once a trip lookup is back.
AfterLookup(cy) ==
    IF ~AllSettled(cy.slots) THEN cy
    ELSE IF cy.phase = "bookings"
    THEN EnrichEnquiries([cy EXCEPT !.enhancedBookings = Enhanced(cy.bookingsData, cy.slots)])
    ELSE [cy EXCEPT !.pc = "publish"]

\* Publish without line 132.
PublishBookingsOnly(c, cy) ==
    /\ bookings' = [of |-> c, items |-> cy.enhancedBookings]
    /\ isLoading' = FALSE
    /\ cycles' = [cycles EXCEPT ![c] = Ended(cy, "done")]
    /\ UNCHANGED <<localStorage, isLoggedIn, username, appPassword, currentUsername,
                   userId, enquiries, alerts, logoutCalls>>

\* Lines 131-132 and the finally.
Publish(c, cy) ==
    /\ bookings' = [of |-> c, items |-> cy.enhancedBookings]
    /\ enquiries' = [of |-> c, items |-> Enhanced(cy.enquiriesData, cy.slots)]
    /\ isLoading' = FALSE
    /\ cycles' = [cycles EXCEPT ![c] = Ended(cy, "done")]
    /\ UNCHANGED <<localStorage, isLoggedIn, username, appPassword, currentUsername,
                   userId, alerts, logoutCalls>>

\* Fail without the finally of line 139.
FailWithoutFinally(c, cy) ==
    /\ alerts' = alerts + 1
    /\ Assign(handleLogout(Session))
    /\ logoutCalls' = logoutCalls + 1
    /\ isLoading' = isLoading
    /\ cycles' = [cycles EXCEPT ![c] = Ended(cy, "failed")]

\* The catch (lines 134-137) and the finally.
Fail(c, cy) ==
    /\ alerts' = alerts + 1
    /\ Assign(handleLogout(Session))
    /\ logoutCalls' = logoutCalls + 1
    /\ isLoading' = FALSE
    /\ cycles' = [cycles EXCEPT ![c] = Ended(cy, "failed")]

\* The state after call c ran from an await to its next await or its return.
Resume(c, cy) ==
    IF cy.pc = "publish" THEN Publish(c, cy)
    ELSE IF cy.pc = "throw" THEN Fail(c, cy)
    ELSE /\ cycles' = [cycles EXCEPT ![c] = cy]
         /\ UNCHANGED <<localStorage, isLoggedIn, isLoading, username, appPassword,
                        currentUsername, userId, bookings, enquiries, alerts,
                        logoutCalls>>

\* StoredAuthFalsy with line 108 reading `if (storedAuth)`.
StoredAuthTruthy(text) == text.kind # "absent"

\* !storedAuth (line 108): JSON.parse(null) is null.
StoredAuthFalsy(text) == text.kind = "absent"

\* The second effect (lines 42-46) with fetchData up to its await (lines
\* 105-120).
EffectFetchData ==
    /\ app = "mounted"
    /\ effectPending
    /\ effectPending' = FALSE
    /\ IF ~isLoggedIn
       THEN UNCHANGED <<isLoading, cycles>>
       ELSE IF ParseThrows(localStorage)
       THEN isLoading' = TRUE /\ UNCHANGED cycles
       ELSE IF StoredAuthFalsy(localStorage)
       THEN isLoading' = FALSE /\ UNCHANGED cycles
       ELSE /\ isLoading' = TRUE
            /\ cycles' = Append(cycles, NewCycle(localStorage.body))
    /\ UNCHANGED <<app, localStorage, isLoggedIn, loginError, siteUrl, username,
                   appPassword, bookings, enquiries, currentUsername, userId,
                   loginReq, enr, alerts, logoutCalls>>

\* What a collection request can come back with.
CollectionBodies == {WithIds(b) : b \in SeqsUpTo(AppItemShapes, MaxItems)}
CollectionOutcomes ==
    {[st |-> k, items |-> <<>>] : k \in {"non2xx", "neterr", "badjson"}}
    \cup {[st |-> "ok", items |-> b] : b \in CollectionBodies}

\* The booking request of call c is back.
BookingResponse(c, o) ==
    /\ app = "mounted"
    /\ c \in 1..Len(cycles)
    /\ cycles[c].pc = "fetching"
    /\ cycles[c].bRes = "pending"
    /\ Resume(c, AfterFetch([cycles[c] EXCEPT !.bRes = o.st, !.bookingsData = o.items]))
    /\ UNCHANGED <<app, loginError, siteUrl, effectPending, loginReq, enr>>

\* The enquiry request of call c is back.
EnquiryResponse(c, o) ==
    /\ app = "mounted"
    /\ c \in 1..Len(cycles)
    /\ cycles[c].pc = "fetching"
    /\ cycles[c].eRes = "pending"
    /\ Resume(c, AfterFetch([cycles[c] EXCEPT !.eRes = o.st, !.enquiriesData = o.items]))
    /\ UNCHANGED <<app, loginError, siteUrl, effectPending, loginReq, enr>>

\* The trip request of item i of call c is back.
LookupResponse(c, i, o) ==
    /\ app = "mounted"
    /\ c \in 1..Len(cycles)
    /\ cycles[c].pc = "enriching"
    /\ i \in 1..Len(cycles[c].slots)
    /\ cycles[c].slots[i].st = "pending"
    /\ Resume(c, AfterLookup([cycles[c] EXCEPT !.slots = SlotRespond(@, i, o)]))
    /\ UNCHANGED <<app, loginError, siteUrl, effectPending, loginReq, enr>>

Next ==
    \/ Mount
    \/ \E s \in SiteUrls, u \in Usernames, p \in Passwords : SubmitLogin(s, u, p)
    \/ \E o \in LoginOutcomes : LoginResponse(o)
    \/ ClickLogout
    \/ EffectFetchData
    \/ \E c \in 1..Len(cycles), o \in CollectionOutcomes : BookingResponse(c, o)
    \/ \E c \in 1..Len(cycles), o \in CollectionOutcomes : EnquiryResponse(c, o)
    \/ \E c \in 1..Len(cycles), i \in 1..MaxItems, o \in AppLookupOutcomes :
            LookupResponse(c, i, o)

Spec == Init /\ [][Next]_vars

\* ------------------------------------------------------------------------
\* addTripNamesToItems on its own: every call on up to MaxEnrichItems items
\* of any shape, its lookups answered in any order with any outcome.
appVars == <<app, localStorage, reactState, effectPending, loginReq, cycles, ghost>>

EnrichInputs == {WithIds(b) : b \in SeqsUpTo(ItemShapes, MaxEnrichItems)}

InitEnrich ==
    /\ app = "unmounted"
    /\ localStorage = Absent
    /\ isLoggedIn = FALSE
    /\ isLoading = TRUE
    /\ loginError = ""
    /\ siteUrl = DefaultSiteUrl
    /\ username = ""
    /\ appPassword = ""
    /\ bookings = NoItems
    /\ enquiries = NoItems
    /\ currentUsername = ""
    /\ userId = Null
    /\ effectPending = FALSE
    /\ loginReq = NoLogin
    /\ cycles = <<>>
    /\ alerts = 0
    /\ logoutCalls = 0
    /\ \E items \in EnrichInputs, isEnquiry \in BOOLEAN :
            enr = [NoEnr EXCEPT !.pc = "called", !.items = items, !.isEnquiry = isEnquiry]

\* The call's continuation once every map callback has settled (line 171).
EnrJoin(e) ==
    IF AllSettled(e.slots)
    THEN [e EXCEPT !.pc = "returned", !.out = Enhanced(e.items, e.slots)]
    ELSE [e EXCEPT !.pc = "awaiting"]

\* Lines 143-162: the call up to the awaits of its callbacks.
EnrichCall ==
    /\ enr.pc = "called"
    /\ enr' = EnrJoin([enr EXCEPT !.slots = StartSlots(enr.items, enr.isEnquiry)])
    /\ UNCHANGED appVars

\* Lines 163-171: the trip request of item i is back.
EnrichLookup(i, o) ==
    /\ enr.pc = "awaiting"
    /\ i \in 1..Len(enr.slots)
    /\ enr.slots[i].st = "pending"
    /\ enr' = EnrJoin([enr EXCEPT !.slots = SlotRespond(@, i, o)])
    /\ UNCHANGED appVars

NextEnrich ==
    \/ EnrichCall
    \/ \E i \in 1..MaxEnrichItems, o \in LookupOutcomes : EnrichLookup(i, o)

SpecEnrich == InitEnrich /\ [][NextEnrich]_vars

\* React runs the effects of a committed render; nothing makes a request
\* come back.
FairSpec == Spec /\ WF_vars(EffectFetchData)

\* A request in flight (lines 117-120, 162) is answered.
Response ==
    \/ \E c \in 1..MaxCycles, o \in CollectionOutcomes : BookingResponse(c, o)
    \/ \E c \in 1..MaxCycles, o \in CollectionOutcomes : EnquiryResponse(c, o)
    \/ \E c \in 1..MaxCycles, i \in 1..MaxItems, o \in AppLookupOutcomes :
            LookupResponse(c, i, o)

\* React runs the effects of a committed render, and the requests in flight
\* are not all left without an answer for ever.
FairNetSpec == Spec /\ WF_vars(EffectFetchData) /\ WF_vars(Response)

\* 'providerAuth' belongs to the origin, not to the page: a second page of
\* the dashboard, open in another tab, stores the session of its own login
\* (lines 74-80) in the store this page reads and clears.
OtherTabLogin(identity) ==
    /\ app = "mounted"
    /\ localStorage = Absent
    /\ localStorage' = JSONstringify(AuthPayload(identity[2], identity[1], DefaultSiteUrl,
                                                 Token("alice", "pw")))
    /\ UNCHANGED <<app, reactState, effectPending, loginReq, cycles, enr, ghost>>

NextTabs ==
    \/ Next
    \/ \E identity \in ServerIdentities : OtherTabLogin(identity)

SpecTabs == Init /\ [][NextTabs]_vars

\* ------------------------------------------------------------------------
\* The claims.

\* The dashboard shows the two lists (lines 224-228).
Ready == app = "mounted" /\ isLoggedIn /\ ~isLoading

\* C1: in every state the dashboard shows as ready (logged in, not loading),
\* bookings and enquiries hold the result of the same fetchData call, or
\* both hold none.
C1_AtomicPublication == Ready => bookings.of = enquiries.of

\* C1 witness: the dashboard is ready with both lists of the second call,
\* the enquiries not empty.
C1_Witness ==
    /\ Ready
    /\ bookings.of = 2
    /\ enquiries.of = 2
    /\ Len(enquiries.items) > 0

\* C2: a fetchData call whose Promise.all has settled with a failed fetch
\* (rejected, or a status that is not ok) is in the failed state and nowhere
\* else; the step that fails it removes the stored session, logs out, raises
\* an alert and leaves both lists empty; a failed call's result is never in
\* the lists.
C2_FetchFailureFailsCycle ==
    /\ [](\A c \in 1..Len(cycles) :
            /\ cycles[c].pc = "fetching" => PromiseAllPending(cycles[c])
            /\ cycles[c].pc \in {"enriching", "done"} =>
                   cycles[c].bRes = "ok" /\ cycles[c].eRes = "ok"
            /\ cycles[c].pc = "failed" => bookings.of # c /\ enquiries.of # c)
    /\ [][\A c \in 1..Len(cycles) :
            (cycles[c].pc # "failed" /\ cycles'[c].pc = "failed") =>
                /\ localStorage' = Absent
                /\ ~isLoggedIn'
                /\ alerts' = alerts + 1
                /\ bookings' = NoItems
                /\ enquiries' = NoItems]_vars

\* C2 witness: a call has failed and the user is logged out with an alert.
C2_Witness ==
    /\ \E c \in 1..Len(cycles) : cycles[c].pc = "failed"
    /\ alerts > 0
    /\ ~isLoggedIn
    /\ localStorage = Absent

\* C3: every item addTripNamesToItems returns has a trip name, a title or
\* "Unknown Trip", whatever its lookup came back with.
C3_TripNameNeverAbsent ==
    enr.pc = "returned" =>
        \A i \in 1..Len(enr.out) : enr.out[i].trip_name # Undefined

\* C4: only a call awaiting its two fetches can fail; a call awaiting its
\* lookups goes on awaiting them or publishes; the alert and the logout of
\* the catch come with a call failing from the fetches.
C4_EnrichmentCannotFail ==
    [][/\ \A c \in 1..Len(cycles) :
            /\ cycles[c].pc = "enriching" => cycles'[c].pc \in {"enriching", "done"}
            /\ (cycles[c].pc # "failed" /\ cycles'[c].pc = "failed") =>
                    cycles[c].pc = "fetching"
       /\ alerts' # alerts =>
            \E c \in 1..Len(cycles) :
                cycles[c].pc = "fetching" /\ cycles'[c].pc = "failed"]_vars

\* C4 witness: a call is done whose enquiry's lookup failed: the item has a
\* trip id and the fallback name.
C4_Witness ==
    \E c \in 1..Len(cycles) :
        /\ cycles[c].pc = "done"
        /\ enquiries.of = c
        /\ \E i \in 1..Len(enquiries.items) :
                /\ enquiries.items[i].trip_id = <<42>>
                /\ enquiries.items[i].trip_name = UnknownTrip

\* C5: a submit with an empty site address, username or password issues no
\* request, reports "All fields are required.", stores no session and leaves
\* the user logged out.
C5_MissingInput ==
    [][\A s \in SiteUrls, u \in Usernames, p \in Passwords :
            (SubmitLogin(s, u, p) /\ (s = "" \/ u = "" \/ p = "")) =>
                /\ loginReq'.pc = "idle"
                /\ cycles' = cycles
                /\ loginError' = MsgRequired
                /\ localStorage' = Absent
                /\ ~isLoggedIn'
                /\ ~effectPending']_vars

\* C5 witness: the form shows the error after a submit without site address.
C5_Witness ==
    /\ loginError = MsgRequired
    /\ siteUrl = ""
    /\ username # ""
    /\ appPassword # ""
    /\ FormShown

\* C6: a successful login stores, and puts in currentUsername and userId,
\* the name and the id of the identity response.
C6_ServerIdentity ==
    [][\A o \in LoginOutcomes :
            (o.kind = "ok" /\ LoginResponse(o)) =>
                /\ localStorage'.kind = "json"
                /\ Prop(localStorage'.body, "username") = o.name
                /\ Prop(localStorage'.body, "userId") = o.id
                /\ currentUsername' = o.name
                /\ userId' = o.id]_vars

\* C6 witness: logged in as "Alice A." after a login with the username "alice".
C6_Witness ==
    /\ isLoggedIn
    /\ username = "alice"
    /\ currentUsername = "Alice A."
    /\ Prop(localStorage.body, "username") = "Alice A."

\* C7: a login answered with a status that is not ok or not answered at all
\* shows a message on the form, stores no session, leaves the user logged
\* out and starts no fetchData call.
C7_LoginFailure ==
    [][\A o \in LoginOutcomes :
            (o.kind \in {"non2xx", "neterr"} /\ LoginResponse(o)) =>
                /\ loginError' # ""
                /\ localStorage' = Absent
                /\ ~isLoggedIn'
                /\ ~isLoading'
                /\ ~effectPending'
                /\ cycles' = cycles]_vars

\* C7 witness: the form shows the message for rejected credentials.
C7_Witness ==
    /\ loginError = MsgInvalid
    /\ FormShown
    /\ localStorage = Absent

\* A session has just become available: a login or the rehydration has set
\* isLoggedIn and the render's effect is still to run.
SessionAvailable == app = "mounted" /\ isLoggedIn /\ effectPending

\* A fetchData call has issued its two requests with the stored session.
CycleStarted ==
    \E c \in 1..Len(cycles) :
        /\ cycles[c].pc = "fetching"
        /\ cycles[c].bRes = "pending"
        /\ cycles[c].eRes = "pending"
        /\ localStorage.kind = "json"
        /\ cycles[c].auth = localStorage.body

\* C8: once a session is available (by login or rehydration) it is stored
\* with the actor id the component holds, and a fetchData call with that
\* session is started without any further input.
C8_CycleStartsAutomatically ==
    /\ [](SessionAvailable =>
            /\ localStorage.kind = "json"
            /\ Prop(localStorage.body, "userId") = userId)
    /\ (SessionAvailable ~> CycleStarted)

\* C8 witness: the second call has just been started, after a login that
\* the server answered with id 7.
C8_Witness ==
    /\ CycleStarted
    /\ Len(cycles) = 2
    /\ cycles[2].pc = "fetching"
    /\ userId = "7"
    /\ isLoggedIn
    /\ isLoading

\* C9: every call of handleLogout leaves no stored session, nobody logged in
\* and both lists empty, and a call that follows another changes nothing.
C9_LogoutIdempotent ==
    [][logoutCalls' > logoutCalls =>
            /\ localStorage' = Absent
            /\ ~isLoggedIn'
            /\ bookings' = NoItems
            /\ enquiries' = NoItems
            /\ (logoutCalls >= 1 => Session' = Session)]_vars

\* C9 witness: handleLogout has run twice in succession (the button, then
\* the catch of the call that was under way).
C9_Witness ==
    /\ logoutCalls = 2
    /\ Session = handleLogout(Session)

\* C10: with no stored entry or one that is not JSON, the first effect ends
\* with the component mounted, the loading check finished, nobody logged in
\* and no fetchData call under way.
C10_LoadFailsSilently ==
    [][(app = "unmounted" /\ app' # "unmounted"
            /\ localStorage.kind \in {"absent", "garbage"}) =>
                /\ app' = "mounted"
                /\ ~isLoading'
                /\ ~isLoggedIn'
                /\ ~effectPending'
                /\ cycles' = <<>>]_vars

\* A cart map with a usable title, in the array the REST API wraps every
\* meta value in, and as a bare map.
EmbeddedTitle(item, t) == item.order_trips = [wrap |-> "array", carts |-> <<t>>]
BareTitle(item, t) == item.order_trips = [wrap |-> "bare", carts |-> <<t>>]

\* The call has run its callbacks up to their awaits.
EnrStarted == enr.pc \in {"awaiting", "returned"}

\* C11 as claimed: a booking whose order_trips is the map {cart1: {title:
\* "Safari"}} gets the trip name "Safari" and issues no lookup.
C11_BareMapTitle ==
    (EnrStarted /\ ~enr.isEnquiry) =>
        \A i \in 1..Len(enr.items) :
            BareTitle(enr.items[i], "Safari") =>
                /\ ~enr.slots[i].fetched
                /\ enr.slots[i].trip_name = "Safari"

\* C11 as amended: a booking whose order_trips is the array [{cart1: {title:
\* "Safari"}}] gets the trip name "Safari" and issues no lookup.
C11_ArrayMapTitle ==
    (EnrStarted /\ ~enr.isEnquiry) =>
        \A i \in 1..Len(enr.items) :
            EmbeddedTitle(enr.items[i], "Safari") =>
                /\ ~enr.slots[i].fetched
                /\ enr.slots[i].trip_name = "Safari"
                /\ (enr.pc = "returned" => enr.out[i].trip_name = "Safari")

\* C11 witness: a call on bookings has returned such an item as "Safari".
C11_Witness ==
    /\ enr.pc = "returned"
    /\ ~enr.isEnquiry
    /\ \E i \in 1..Len(enr.items) :
            /\ EmbeddedTitle(enr.items[i], "Safari")
            /\ enr.out[i].trip_name = "Safari"
            /\ ~enr.slots[i].fetched

\* The item carries an embedded cart title that can be shown.
UsableEmbedded(item) == \E t \in CartTitles \ {""} : EmbeddedTitle(item, t)

\* C12: for every item of a bookings or an enquiries call, a usable embedded
\* title is the trip name and no lookup is issued for the item, whether or
\* not it has a trip id; a lookup is issued only for items without one.
C12_StrictPriority ==
    EnrStarted =>
        \A i \in 1..Len(enr.items) :
            /\ UsableEmbedded(enr.items[i]) =>
                    /\ ~enr.slots[i].fetched
                    /\ enr.slots[i].trip_name = FirstCartTitle(enr.items[i])
            /\ enr.slots[i].fetched => ~UsableEmbedded(enr.items[i])

\* The item has no order_trips metadata and refers to a trip by id.
TripIdOnly(item) == item.order_trips.wrap = "none" /\ EnquiryTripId(item) # 0

\* C13: in a bookings call as in an enquiries call, an item with no
\* order_trips metadata and a trip id issues the lookup of that trip id
\* (and takes its trip name from the answer, never from anything else).
C13_LookupForBothVariants ==
    EnrStarted =>
        \A i \in 1..Len(enr.items) :
            TripIdOnly(enr.items[i]) =>
                /\ enr.slots[i].fetched
                /\ enr.slots[i].tripId = EnquiryTripId(enr.items[i])

\* C14: the returned sequence has the length of the input and, at each
\* position, the input's item of that position with only trip_name added,
\* in whatever order the lookups were answered.
C14_OrderPreserved ==
    enr.pc = "returned" =>
        /\ Len(enr.out) = Len(enr.items)
        /\ \A i \in 1..Len(enr.items) :
            /\ DOMAIN enr.out[i] = DOMAIN enr.items[i] \cup {"trip_name"}
            /\ \A k \in DOMAIN enr.items[i] : enr.out[i][k] = enr.items[i][k]

\* C14 witness: a call has returned two items whose lookups were answered
\* in the reverse of the input's order.
C14_Witness ==
    /\ enr.pc = "returned"
    /\ Len(enr.items) = 2
    /\ enr.slots[1].fetched /\ enr.slots[2].fetched
    /\ enr.slots[2].nth < enr.slots[1].nth
    /\ enr.out[1].id = 1 /\ enr.out[2].id = 2
    /\ enr.out[1].trip_name # enr.out[2].trip_name

\* fetchData call c has started and has not returned.
InFlight(c) == c \in 1..Len(cycles) /\ cycles[c].pc \notin {"done", "failed"}

\* C15: while a fetchData call is in progress, the stored session is cleared
\* or replaced by no step other than that call's own failure handling: no
\* logout and no login takes effect between its start and its end.
C15_SessionFixedMidCycle ==
    [][\A c \in 1..Len(cycles) :
          (InFlight(c) /\ localStorage' # localStorage) => cycles'[c].pc = "failed"]_vars

\* The four fields of a session.
SessionFields == {"username", "userId", "siteUrl", "token"}

\* C16: a session the store holds has all four fields (the store is
\* otherwise empty): no login leaves a session with a field missing.
C16_SessionWhole ==
    localStorage.kind = "json" =>
        \A k \in SessionFields : Prop(localStorage.body, k) # Undefined

\* C17: when every request is answered, every fetchData call that has
\* started ends, published ("done") or failed, with isLoading set to false.
C17_CyclesEnd ==
    (\E c \in 1..MaxCycles : InFlight(c))
        ~> ((\A c \in 1..Len(cycles) : cycles[c].pc \in {"done", "failed"}) /\ ~isLoading)

\* C17 witness: a call that went through enrichment lookups has ended and
\* isLoading is false.
C17_Witness ==
    \E c \in 1..Len(cycles) :
        /\ cycles[c].pc = "done"
        /\ ~isLoading
        /\ enquiries.of = c
        /\ \E i \in 1..Len(enquiries.items) : enquiries.items[i].trip_id # <<>>

\* The session the published collection r was fetched with is the stored one.
OfCurrentSession(r) ==
    r.items # <<>> => (localStorage.kind = "json" /\ cycles[r.of].auth = localStorage.body)

\* C18: whenever the dashboard is logged in and not loading, the bookings
\* and the enquiries it holds were fetched with the session now logged in.
C18_ResultsOfCurrentSession ==
    Ready => (OfCurrentSession(bookings) /\ OfCurrentSession(enquiries))

\* C19: the failure of a fetchData call that started under a session other
\* than the stored one leaves the stored session in place.
C19_StaleFailureSparesSession ==
    [][\A c \in 1..Len(cycles) :
          ( /\ InFlight(c)
            /\ cycles'[c].pc = "failed"
            /\ localStorage.kind = "json"
            /\ localStorage.body # cycles[c].auth )
          => localStorage' = localStorage]_vars

\* C20: whenever the dashboard is logged out and no session is stored,
\* bookings and enquiries are empty.
C20_LoggedOutHoldsNothing ==
    (app = "mounted" /\ ~isLoggedIn /\ localStorage = Absent) =>
        (bookings.items = <<>> /\ enquiries.items = <<>>)

====
